---------------------------- MODULE Spec2Model ----------------------------
(***************************************************************************)
(* Model of github.com/AlekSi/pushover: the legacy Client (Send and        *)
(* SendWithRetries with TemporaryError / FatalError), the context-based    *)
(* Client (sendRequest, SendMessage, SendGlance), MessageClient, and the   *)
(* request encoders makeData / makeMessageData / makeGlanceData.           *)
(***************************************************************************)
EXTENDS Integers, Sequences, FiniteSets, TLC

VARIABLES
    op,          \* the send operation the caller invoked
    maxRetries,  \* SendWithRetries' maxRetries argument
    pc,          \* "idle" | "attempting" | "sleeping" | "done"
    i,           \* SendWithRetries' local counter i
    lastT,       \* what the transport did in the most recent exchange
    lastErr,     \* the error value the most recent single send returned
    result,      \* the error value returned to the caller
    nSend,       \* history: single sends performed in this call
    nSleep,      \* history: time.Sleep calls completed in this call
    nTemp,       \* history: single sends that returned a TemporaryError
    trace,       \* history: the order of "send" and "sleep" events
    cancelled,   \* an external cancellation signal raised during the call
    cancelledAt, \* history: nSend when the signal arrived while sleeping, else -1
    encoder,     \* which encoder built `data`
    msg,         \* the Message handed to the encoder
    glance,      \* the Glance handed to the encoder
    heap,        \* the ints the *int fields of Glance point to
    data,        \* the request body: the string url.Values.Encode() returned
    Err,         \* the Err field of the *Error under study
    returned,    \* what each method of that *Error returned, once called
    appToken,    \* Client.appToken
    rwm,         \* Client.m: the writer and the readers holding the RWMutex
    httpClient,  \* Client.httpClient: "nil" or an installed handle
    goroutines   \* the callers sharing the Client: position and locals of each

dispatchVars == <<op, maxRetries, pc, i, lastT, lastErr, result, nSend, nSleep,
                  nTemp, trace, cancelled, cancelledAt>>
encodeVars == <<encoder, msg, glance, heap, data>>
wrapVars == <<Err, returned>>
shareVars == <<appToken, rwm, httpClient, goroutines>>
vars == <<dispatchVars, encodeVars, wrapVars, shareVars>>

-----------------------------------------------------------------------------
(* Bounds of the model *)

\* largest positive maxRetries the caller passes
MaxRetriesBound == 3

\* cap on the single sends of one call (unlimited retries never end)
MaxSends == MaxRetriesBound + 1

-----------------------------------------------------------------------------
(* Error values *)

NoError == [kind |-> "nil", StatusCode |-> 0, Message |-> ""]

\* &TemporaryError{StatusCode: code, Message: m}
TemporaryError(code, m) == [kind |-> "TemporaryError", StatusCode |-> code, Message |-> m]

\* &FatalError{StatusCode: code, Message: m}
FatalError(code, m) == [kind |-> "FatalError", StatusCode |-> code, Message |-> m]

\* an error value of any other type (*url.Error, *fmt.wrapError, ...)
RawError(code, m) == [kind |-> "error", StatusCode |-> code, Message |-> m]

\* TemporaryError.Temporary / FatalError.Temporary
Temporary(e) == e.kind = "TemporaryError"

\* err.(net.Error): nil and plain errors do not implement net.Error
IsNetError(e) == e.kind \in {"TemporaryError", "FatalError"}

-----------------------------------------------------------------------------
(* The transport and encoding/json *)

StatusCodes == {200, 201, 302, 400, 404, 499, 500, 503}

\* Response bodies the service or a gateway may return.
Bodies == { "{\"status\":1}", "{\"status\":1.0,\"request\":\"r\"}", "{\"status\":0}",
            "{\"status\":0.5}", "{\"status\":2}", "{\"status\":\"1\"}",
            "{\"status\":true}", "{\"status\":null}", "{\"Status\":1}", "{}",
            "null", "[1]", "{\"status\":1", "<html>502</html>", "" }

\* a JSON number, kept in tenths so that 0.5 is representable
Num(tenths) == [type |-> "number", tenths |-> tenths]
Other(t) == [type |-> t, tenths |-> 0]
Obj(fields) == [kind |-> "object", fields |-> fields]
Syntax(k) == [kind |-> k, fields |-> <<>>]

\* The JSON value a body denotes (RFC 8259), "invalid" when it is not JSON.
JSONValue(b) ==
    CASE b = "{\"status\":1}" -> Obj([status |-> Num(10)])
      [] b = "{\"status\":1.0,\"request\":\"r\"}" ->
             Obj([status |-> Num(10), request |-> Other("string")])
      [] b = "{\"status\":0}" -> Obj([status |-> Num(0)])
      [] b = "{\"status\":0.5}" -> Obj([status |-> Num(5)])
      [] b = "{\"status\":2}" -> Obj([status |-> Num(20)])
      [] b = "{\"status\":\"1\"}" -> Obj([status |-> Other("string")])
      [] b = "{\"status\":true}" -> Obj([status |-> Other("bool")])
      [] b = "{\"status\":null}" -> Obj([status |-> Other("null")])
      [] b = "{\"Status\":1}" -> Obj([Status |-> Num(10)])
      [] b = "{}" -> Obj(<<>>)
      [] b = "null" -> Syntax("null")
      [] b = "[1]" -> Syntax("array")
      [] OTHER -> Syntax("invalid")

\* json.Unmarshal(b, &m) with m a map[string]interface{}: an error unless b is
\* an object or null; null leaves the (empty) map as it is.
Unmarshal(b) ==
    LET v == JSONValue(b) IN
    IF v.kind = "object" THEN [err |-> FALSE, m |-> v.fields]
    ELSE IF v.kind = "null" THEN [err |-> FALSE, m |-> <<>>]
    ELSE [err |-> TRUE, m |-> <<>>]

\* What one HTTP exchange does: the step at which it stops, and the response.
TransportOutcomes ==
    { [step |-> "newrequest_err", code |-> 0, body |-> ""],
      [step |-> "do_err", code |-> 0, body |-> ""] }
    \cup [step : {"read_err"}, code : StatusCodes, body : {""}]
    \cup [step : {"ok"}, code : StatusCodes, body : Bodies]

NoTransport == [step |-> "none", code |-> 0, body |-> ""]

-----------------------------------------------------------------------------
(* strconv.Itoa / fmt.Sprint of an int *)

Digit == <<"0", "1", "2", "3", "4", "5", "6", "7", "8", "9">>

RECURSIVE FormatUint(_)
FormatUint(n) ==
    IF n < 10 THEN Digit[n + 1] ELSE FormatUint(n \div 10) \o Digit[(n % 10) + 1]

Itoa(n) == IF n < 0 THEN "-" \o FormatUint(-n) ELSE FormatUint(n)

-----------------------------------------------------------------------------
(* The response classifier *)

\* status, jsonOk = m["status"].(float64), after json.Unmarshal(b, &m);
\* a failed assertion leaves status at its zero value
ParseStatus(b) ==
    LET u == Unmarshal(b) IN
    IF ~u.err /\ "status" \in DOMAIN u.m /\ u.m["status"].type = "number"
    THEN [jsonOk |-> TRUE, status |-> u.m["status"].tenths]
    ELSE [jsonOk |-> FALSE, status |-> 0]

\* faulty variant: any 2xx status code counts as success
IsSuccess_Any2xx(code, st) == code \div 100 = 2 /\ st.jsonOk /\ st.status = 10

\* resp.StatusCode == 200 && jsonOk && status == 1.0
IsSuccess(code, st) == code = 200 /\ st.jsonOk /\ st.status = 10

\* faulty variant: the zero value of a status that was never parsed counts as 0
IsFatal_IgnoresJsonOk(code, st) == code \div 100 = 4 \/ st.status = 0

\* resp.StatusCode/100 == 4 || (jsonOk && status == 0.0)
IsFatal(code, st) == code \div 100 = 4 \/ (st.jsonOk /\ st.status = 0)

\* The error value for a response that was read in full (legacy Client.Send).
Classify(code, b) ==
    LET st == ParseStatus(b) IN
    IF IsSuccess(code, st) THEN NoError
    ELSE IF IsFatal(code, st) THEN FatalError(code, b)
    ELSE TemporaryError(code, b)

\* faulty variant: a failed exchange is returned as the transport's own error
Send_RawTransportError(t) ==
    CASE t.step = "newrequest_err" -> FatalError(-1, "NewRequest failed")
      [] t.step = "do_err" -> RawError(0, "Do failed")
      [] t.step = "read_err" -> RawError(0, "ReadAll failed")
      [] OTHER -> Classify(t.code, t.body)

\* faulty variant: a failed exchange is fatal, a failed construction temporary
Send_FailuresSwapped(t) ==
    CASE t.step = "newrequest_err" -> TemporaryError(-1, "NewRequest failed")
      [] t.step = "do_err" -> FatalError(-1, "Do failed")
      [] t.step = "read_err" -> TemporaryError(t.code, "ReadAll failed")
      [] OTHER -> Classify(t.code, t.body)

\* Client.Send (legacy): one exchange, classified.
Send(t) ==
    CASE t.step = "newrequest_err" -> FatalError(-1, "NewRequest failed")
      [] t.step = "do_err" -> TemporaryError(-1, "Do failed")
      [] t.step = "read_err" -> TemporaryError(t.code, "ReadAll failed")
      [] OTHER -> Classify(t.code, t.body)

\* Client.sendRequest (context-based): one exchange; errors are returned as they are.
sendRequest(t) ==
    CASE t.step = "newrequest_err" -> RawError(0, "NewRequest failed")
      [] t.step = "do_err" -> RawError(0, "Do failed")
      [] t.step = "read_err" -> RawError(0, "ReadAll failed")
      [] OTHER -> IF IsSuccess(t.code, ParseStatus(t.body)) THEN NoError
                  ELSE RawError(0, Itoa(t.code) \o ": " \o t.body)

\* MessageClient.SendMessage: the same exchange, inlined.
MessageClientSendMessage(t) ==
    CASE t.step = "newrequest_err" -> RawError(0, "NewRequest failed")
      [] t.step = "do_err" -> RawError(0, "Do failed")
      [] t.step = "read_err" -> RawError(0, "ReadAll failed")
      [] OTHER -> IF IsSuccess(t.code, ParseStatus(t.body)) THEN NoError
                  ELSE RawError(0, Itoa(t.code) \o ": " \o t.body)

-----------------------------------------------------------------------------
(* The send operations *)

\* Client.Send / Client.SendMessage of the legacy client and their
\* package-level wrappers: one classified exchange, no retry
OnceOps == {"Send", "SendMessage", "DefaultClient.Send", "DefaultClient.SendMessage"}

\* Client.SendWithRetries / SendMessageWithRetries and their wrappers
RetryOps == {"SendWithRetries", "SendMessageWithRetries",
             "DefaultClient.SendWithRetries", "DefaultClient.SendMessageWithRetries"}

\* the context-based Client: every one is a call of sendRequest
CtxOps == {"ctx.SendMessage", "ctx.Send", "ctx.SendGlance"}

\* MessageClient.SendMessage and MessageClient.Send
MessageClientOps == {"MessageClient.SendMessage", "MessageClient.Send"}

Ops == OnceOps \cup RetryOps \cup CtxOps \cup MessageClientOps

\* faulty variant: only success ends the loop, a FatalError is retried
ReturnsAtOnce_OnlyNil(e) == e.kind = "nil"

\* if e, ok := err.(net.Error); !ok || !e.Temporary() { return err }
ReturnsAtOnce(e) == ~IsNetError(e) \/ ~Temporary(e)

\* faulty variant: the loop gives up one Temporary outcome early
GaveUp_OneEarly(n, cnt) == n > 0 /\ cnt >= n - 1

\* faulty variant: the counter is compared before it is incremented
GaveUp_BeforeIncrement(n, cnt) == n > 0 /\ n = cnt - 1

\* faulty variant: maxRetries <= 0 is not treated as unlimited
GaveUp_NoPositiveCheck(n, cnt) == cnt >= n

\* if maxRetries > 0 && maxRetries == i { return err }
GaveUp(n, cnt) == n > 0 /\ n = cnt

\* The caller invokes a send operation.
Call(o, n) ==
    /\ pc \in {"idle", "done"}
    /\ op' = o
    /\ maxRetries' = n
    /\ pc' = "attempting"
    /\ i' = 0
    /\ lastT' = NoTransport
    /\ lastErr' = NoError
    /\ result' = NoError
    /\ nSend' = 0 /\ nSleep' = 0 /\ nTemp' = 0
    /\ trace' = <<>>
    /\ cancelled' = FALSE
    /\ cancelledAt' = -1
    /\ UNCHANGED <<encodeVars, wrapVars, shareVars>>

\* history kept by every single send
Sent(t, e) ==
    /\ lastT' = t
    /\ lastErr' = e
    /\ nSend' = nSend + 1
    /\ nTemp' = IF Temporary(e) THEN nTemp + 1 ELSE nTemp
    /\ trace' = Append(trace, "send")

\* One iteration of SendWithRetries' loop up to its return or its sleep.
SendWithRetries(t) ==
    /\ pc = "attempting"
    /\ op \in RetryOps
    /\ nSend < MaxSends
    /\ LET err == Send(t) IN
       /\ Sent(t, err)
       /\ IF ReturnsAtOnce(err)
          THEN /\ pc' = "done"
               /\ result' = err
               /\ i' = i
          ELSE /\ i' = i + 1
               /\ IF GaveUp(maxRetries, i + 1)
                  THEN pc' = "done" /\ result' = err
                  ELSE pc' = "sleeping" /\ result' = result
    /\ UNCHANGED <<op, maxRetries, nSleep, cancelled, cancelledAt, encodeVars, wrapVars, shareVars>>

\* faulty variant: the wait ends early with a TemporaryError when the signal is raised
Sleep_Interruptible ==
    /\ pc = "sleeping"
    /\ IF cancelled
       THEN /\ pc' = "done"
            /\ result' = TemporaryError(-1, "cancelled")
            /\ UNCHANGED <<nSleep, trace>>
       ELSE /\ pc' = "attempting"
            /\ result' = result
            /\ nSleep' = nSleep + 1
            /\ trace' = Append(trace, "sleep")
    /\ UNCHANGED <<op, maxRetries, i, lastT, lastErr, nSend, nTemp,
                   cancelled, cancelledAt, encodeVars, wrapVars, shareVars>>

\* time.Sleep(5 * time.Second) returns: the loop goes round.
Sleep ==
    /\ pc = "sleeping"
    /\ pc' = "attempting"
    /\ nSleep' = nSleep + 1
    /\ trace' = Append(trace, "sleep")
    /\ UNCHANGED <<op, maxRetries, i, lastT, lastErr, result, nSend, nTemp,
                   cancelled, cancelledAt, encodeVars, wrapVars, shareVars>>

\* Client.Send, or Client.SendMessage which calls it (legacy client).
ClientSend(t) ==
    /\ pc = "attempting"
    /\ op \in OnceOps
    /\ LET err == Send(t) IN
       /\ Sent(t, err)
       /\ result' = err
    /\ pc' = "done"
    /\ UNCHANGED <<op, maxRetries, i, nSleep, cancelled, cancelledAt, encodeVars, wrapVars, shareVars>>

\* A cancelled context makes the exchange fail before any response is read.
CtxAllows(t) == cancelled => t.step \in {"newrequest_err", "do_err"}

\* Client.SendMessage / Send / SendGlance of the context-based client.
ClientSendRequest(t) ==
    /\ pc = "attempting"
    /\ op \in CtxOps
    /\ CtxAllows(t)
    /\ LET err == sendRequest(t) IN
       /\ Sent(t, err)
       /\ result' = err
    /\ pc' = "done"
    /\ UNCHANGED <<op, maxRetries, i, nSleep, cancelled, cancelledAt, encodeVars, wrapVars, shareVars>>

\* MessageClient.SendMessage, or MessageClient.Send which calls it.
MessageClientSend(t) ==
    /\ pc = "attempting"
    /\ op \in MessageClientOps
    /\ CtxAllows(t)
    /\ LET err == MessageClientSendMessage(t) IN
       /\ Sent(t, err)
       /\ result' = err
    /\ pc' = "done"
    /\ UNCHANGED <<op, maxRetries, i, nSleep, cancelled, cancelledAt, encodeVars, wrapVars, shareVars>>

\* The caller's environment raises a cancellation signal during the call.
Cancel ==
    /\ pc \in {"attempting", "sleeping"}
    /\ ~cancelled
    /\ cancelled' = TRUE
    /\ cancelledAt' = IF pc = "sleeping" THEN nSend ELSE -1
    /\ UNCHANGED <<op, maxRetries, pc, i, lastT, lastErr, result, nSend, nSleep,
                   nTemp, trace, encodeVars, wrapVars, shareVars>>

-----------------------------------------------------------------------------
(* net/url: url.Values, QueryEscape and Values.Encode *)

\* the characters of a string, as a set
CharsOf(str) == {SubSeq(str, k, k) : k \in 1 .. Len(str)}

\* the characters QueryEscape leaves alone
Unreserved ==
    CharsOf("abcdefghijklmnopqrstuvwxyzABCDEFGHIJKLMNOPQRSTUVWXYZ0123456789-_.~")

\* url.QueryEscape of one character: a space becomes "+", any other reserved
\* character its %XX form
EscapeChar(c) ==
    CASE c \in Unreserved -> c
      [] c = " " -> "+"
      [] c = "%" -> "%25"
      [] c = "&" -> "%26"
      [] c = "+" -> "%2B"
      [] c = "," -> "%2C"
      [] c = "/" -> "%2F"
      [] c = ":" -> "%3A"
      [] c = "=" -> "%3D"
      [] c = "?" -> "%3F"

RECURSIVE EscapeFrom(_, _)
EscapeFrom(str, k) ==
    IF k > Len(str) THEN ""
    ELSE EscapeChar(SubSeq(str, k, k)) \o EscapeFrom(str, k + 1)

\* url.QueryEscape
QueryEscape(str) == EscapeFrom(str, 1)

\* byte order of the characters that occur in the parameter names
KeyAlphabet == "_abcdefghijklmnopqrstuvwxyz"

OrdTable ==
    [c \in CharsOf(KeyAlphabet) |->
        CHOOSE k \in 1 .. Len(KeyAlphabet) : SubSeq(KeyAlphabet, k, k) = c]

Ord(c) == OrdTable[c]

\* a < b as Go compares strings
RECURSIVE Less(_, _)
Less(a, b) ==
    IF a = "" THEN b # ""
    ELSE IF b = "" THEN FALSE
    ELSE IF Head(a) = Head(b) THEN Less(Tail(a), Tail(b))
    ELSE Ord(Head(a)) < Ord(Head(b))

\* the least string of a non-empty set
RECURSIVE MinString(_)
MinString(S) ==
    LET x == CHOOSE y \in S : TRUE
        rest == S \ {x}
    IN  IF rest = {} THEN x
        ELSE LET m == MinString(rest) IN IF Less(x, m) THEN x ELSE m

\* a set of strings in increasing order
RECURSIVE Sorted(_)
Sorted(S) ==
    IF S = {} THEN <<>>
    ELSE LET m == MinString(S) IN <<m>> \o Sorted(S \ {m})

\* every parameter name the encoders set
ParameterNames ==
    {"token", "user", "message", "device", "title", "url", "url_title",
     "priority", "sound", "timestamp", "html", "monospace", "retry", "expire",
     "callback", "text", "subtext", "count", "percent"}

SortedParameterNames == Sorted(ParameterNames)

\* sort.Strings over the keys of the map: the keys are parameter names, so
\* their order is the order they have among all the parameter names
SortStrings(S) ==
    LET Keep(x) == x \in S IN SelectSeq(SortedParameterNames, Keep)

\* strings.Join
RECURSIVE Join(_, _)
Join(elems, sep) ==
    IF Len(elems) = 0 THEN ""
    ELSE IF Len(elems) = 1 THEN elems[1]
    ELSE elems[1] \o sep \o Join(Tail(elems), sep)

\* make(url.Values)
NoValues == <<>>

\* url.Values.Set: the key's value is replaced
Set(d, k, v) == [x \in DOMAIN d \cup {k} |-> IF x = k THEN v ELSE d[x]]

RECURSIVE EncodeKeys(_, _)
EncodeKeys(d, keys) ==
    IF Len(keys) = 0 THEN ""
    ELSE LET kv == QueryEscape(keys[1]) \o "=" \o QueryEscape(d[keys[1]])
         IN  IF Len(keys) = 1 THEN kv ELSE kv \o "&" \o EncodeKeys(d, Tail(keys))

\* url.Values.Encode: "k=v" joined by "&", sorted by key, both escaped
Encode(d) == EncodeKeys(d, SortStrings(DOMAIN d))

-----------------------------------------------------------------------------
(* Message and its encoders *)

LowestPriority == -2
LowPriority == -1
NormalPriority == 0
HighPriority == 1
EmergencyPriority == 2

\* a time.Time, kept as its Unix seconds
Time(unix) == [zero |-> FALSE, unix |-> unix]

\* the zero time.Time (January 1, year 1, 00:00 UTC); its Unix seconds are
\* never read by the encoders
ZeroTime == [zero |-> TRUE, unix |-> 0]

\* Timestamp.IsZero()
IsZero(ts) == ts.zero

\* strconv.FormatInt(Timestamp.Unix(), 10)
FormatUnix(ts) == Itoa(ts.unix)

\* c.ApplicationToken / c.appToken
ApplicationToken == "azGDORePK8gMaC0QOYAMyEEuzJnyUi"

\* if cond { data.Set(k, v) }
SetIf(cond, d, k, v) == IF cond THEN Set(d, k, v) ELSE d

\* faulty variant: a zero Retry or Expire is omitted like the other optional fields
SetEmergency_OmitZero(d, m) ==
    IF m.Priority = EmergencyPriority
    THEN SetIf(m.Callback # "",
               SetIf(m.Expire # 0, SetIf(m.Retry # 0, d, "retry", Itoa(m.Retry)),
                     "expire", Itoa(m.Expire)),
               "callback", m.Callback)
    ELSE d

\* the emergency block of makeData: retry and expire always, callback if set
SetEmergency(d, m) ==
    IF m.Priority = EmergencyPriority
    THEN SetIf(m.Callback # "",
               Set(Set(d, "retry", Itoa(m.Retry)), "expire", Itoa(m.Expire)),
               "callback", m.Callback)
    ELSE d

\* faulty variant: only a priority above NormalPriority is written
SetOptional_PositivePriority(d, m) ==
    LET d1 == SetIf(Len(m.Devices) # 0, d, "device", Join(m.Devices, ","))
        d2 == SetIf(m.Title # "", d1, "title", m.Title)
        d3 == SetIf(m.URL # "", d2, "url", m.URL)
        d4 == SetIf(m.URLTitle # "", d3, "url_title", m.URLTitle)
        d5 == SetIf(m.Priority > 0, d4, "priority", Itoa(m.Priority))
        d6 == SetIf(m.Sound # "", d5, "sound", m.Sound)
        d7 == SetIf(~IsZero(m.Timestamp), d6, "timestamp", FormatUnix(m.Timestamp))
        d8 == SetIf(m.HTML, d7, "html", "1")
    IN  SetIf(m.Monospace, d8, "monospace", "1")

\* the optional parameters of makeData, in the order the code sets them
SetOptional(d, m) ==
    LET d1 == SetIf(Len(m.Devices) # 0, d, "device", Join(m.Devices, ","))
        d2 == SetIf(m.Title # "", d1, "title", m.Title)
        d3 == SetIf(m.URL # "", d2, "url", m.URL)
        d4 == SetIf(m.URLTitle # "", d3, "url_title", m.URLTitle)
        d5 == SetIf(m.Priority # 0, d4, "priority", Itoa(m.Priority))
        d6 == SetIf(m.Sound # "", d5, "sound", m.Sound)
        d7 == SetIf(~IsZero(m.Timestamp), d6, "timestamp", FormatUnix(m.Timestamp))
        d8 == SetIf(m.HTML, d7, "html", "1")
    IN  SetIf(m.Monospace, d8, "monospace", "1")

\* the required parameters of makeData
SetRequired(token, m) ==
    Set(Set(Set(NoValues, "token", token), "user", m.User), "message", m.Message)

\* Client.makeData (legacy client)
makeData(token, m) ==
    Encode(SetEmergency(SetOptional(SetRequired(token, m), m), m))

\* Client.makeMessageData (context-based client): the same statements
makeMessageData(token, m) ==
    Encode(SetEmergency(SetOptional(SetRequired(token, m), m), m))

\* MessageClient.makeData: the same statements
MessageClientMakeData(token, m) ==
    Encode(SetEmergency(SetOptional(SetRequired(token, m), m), m))

-----------------------------------------------------------------------------
(* Glance and its encoder *)

\* a nil *string, and a *string pointing at the string v
NilString == [nil |-> TRUE, v |-> ""]
StringPtr(v) == [nil |-> FALSE, v |-> v]

\* a nil *int
NilInt == "nil"

\* RemoveCount = new(int), RemovePercent = new(int): two distinct cells
RemoveCount == "RemoveCount"
RemovePercent == "RemovePercent"

\* the cells of ints the caller allocated
CallerInts == {"p1", "p2"}

Addrs == {RemoveCount, RemovePercent} \cup CallerInts

\* fmt.Sprint of an int
Sprint(n) == Itoa(n)

\* faulty variant: removal is recognised by the value 0, not by the RemoveCount cell
SetCount_ByValue(d, g, h) ==
    IF g.Count # NilInt
    THEN Set(d, "count", IF h[g.Count] # 0 THEN Sprint(h[g.Count]) ELSE "")
    ELSE d

\* the count block: nothing for nil, "" for the RemoveCount cell, else *Count
SetCount(d, g, h) ==
    IF g.Count # NilInt
    THEN Set(d, "count", IF g.Count # RemoveCount THEN Sprint(h[g.Count]) ELSE "")
    ELSE d

\* faulty variant: either sentinel cell is taken for the removal of percent
SetPercent_EitherSentinel(d, g, h) ==
    IF g.Percent # NilInt
    THEN Set(d, "percent", IF g.Percent \notin {RemoveCount, RemovePercent}
                           THEN Sprint(h[g.Percent]) ELSE "")
    ELSE d

\* the percent block: nothing for nil, "" for the RemovePercent cell, else *Percent
SetPercent(d, g, h) ==
    IF g.Percent # NilInt
    THEN Set(d, "percent", IF g.Percent # RemovePercent THEN Sprint(h[g.Percent]) ELSE "")
    ELSE d

\* Client.makeGlanceData
makeGlanceData(token, g, h) ==
    LET d0 == Set(Set(NoValues, "token", token), "user", g.User)
        d1 == SetIf(g.Device # "", d0, "device", g.Device)
        d2 == SetIf(~g.Title.nil, d1, "title", g.Title.v)
        d3 == SetIf(~g.Text.nil, d2, "text", g.Text.v)
        d4 == SetIf(~g.Subtext.nil, d3, "subtext", g.Subtext.v)
    IN  Encode(SetPercent(SetCount(d4, g, h), g, h))

-----------------------------------------------------------------------------
(* The Error wrapper and the shared Client at rest *)

\* no method of the *Error has been called
NoReturns ==
    [ Error |-> [called |-> FALSE, v |-> ""],
      Unwrap |-> [called |-> FALSE, v |-> NoError],
      Timeout |-> [called |-> FALSE, v |-> FALSE],
      Temporary |-> [called |-> FALSE, v |-> FALSE] ]

\* no *Error is under study
WrapIdle ==
    /\ Err = NoError
    /\ returned = NoReturns

\* the callers that may share one Client
Goroutines == {"g1", "g2", "g3"}

\* a caller that is in no method of the Client
Resting ==
    [ at |-> "idle", client |-> "nil", nonNil |-> FALSE, handle |-> "nil",
      seen |-> "nil", reads |-> 0, token |-> "", doer |-> "nil" ]

\* sync.RWMutex held by nobody
Unlocked == [w |-> "none", r |-> {}]

\* &Client{appToken: ApplicationToken} with no caller active
ShareIdle ==
    /\ appToken = ApplicationToken
    /\ rwm = Unlocked
    /\ httpClient = "nil"
    /\ goroutines = [g \in Goroutines |-> Resting]

-----------------------------------------------------------------------------
(* The encoders as state machines: the caller builds a value, the client
   encodes it *)

DispatchIdle ==
    /\ op = "none"
    /\ maxRetries = 0
    /\ pc = "idle"
    /\ i = 0
    /\ lastT = NoTransport
    /\ lastErr = NoError
    /\ result = NoError
    /\ nSend = 0 /\ nSleep = 0 /\ nTemp = 0
    /\ trace = <<>>
    /\ cancelled = FALSE
    /\ cancelledAt = -1

NoMessage == [User |-> "", Message |-> ""]
NoGlance == [User |-> ""]
NoHeap == <<>>

\* the Messages a caller builds
Messages ==
    { m \in [ User : {"uQiRzpo4DXghDmr9QzzfQu27cmVRsG"},
              Message : {"disk 90% full"},
              Devices : {<<>>, <<"iphone">>, <<"iphone", "nexus5", "droid-2">>},
              Title : {"", "Backup&retry=30"},
              URL : {"", "http://example.com/?a=b"},
              URLTitle : {"", "more"},
              Priority : {LowestPriority, NormalPriority, HighPriority,
                          EmergencyPriority, EmergencyPriority + 1},
              Sound : {"", "siren"},
              Timestamp : {ZeroTime, Time(0), Time(1700000000)},
              HTML : BOOLEAN,
              Monospace : BOOLEAN,
              Retry : {0, 30},
              Expire : {0, 3600},
              Callback : {"", "http://example.com/ack?id=1&html=1"} ] :
        ~(m.Retry = 30 /\ m.Expire = 0) }

MessageInit ==
    /\ DispatchIdle /\ WrapIdle /\ ShareIdle
    /\ encoder = "none"
    /\ msg \in Messages
    /\ glance = NoGlance
    /\ heap = NoHeap
    /\ data = ""

\* Client.Send builds its request body with makeData
MakeData ==
    /\ encoder = "none"
    /\ encoder' = "Client.makeData"
    /\ data' = makeData(ApplicationToken, msg)
    /\ UNCHANGED <<dispatchVars, msg, glance, heap, wrapVars, shareVars>>

\* Client.SendMessage builds its request body with makeMessageData
MakeMessageData ==
    /\ encoder = "none"
    /\ encoder' = "Client.makeMessageData"
    /\ data' = makeMessageData(ApplicationToken, msg)
    /\ UNCHANGED <<dispatchVars, msg, glance, heap, wrapVars, shareVars>>

\* MessageClient.SendMessage builds its request body with its makeData
MakeMessageClientData ==
    /\ encoder = "none"
    /\ encoder' = "MessageClient.makeData"
    /\ data' = MessageClientMakeData(ApplicationToken, msg)
    /\ UNCHANGED <<dispatchVars, msg, glance, heap, wrapVars, shareVars>>

MessageNext == MakeData \/ MakeMessageData \/ MakeMessageClientData

MessageSpec == MessageInit /\ [][MessageNext]_vars

\* the Glances a caller builds, and the ints its *int fields may point at
Glances ==
    [ User : {"uQiRzpo4DXghDmr9QzzfQu27cmVRsG"},
      Device : {"", "iphone"},
      Title : {NilString, StringPtr(""), StringPtr("CPU load")},
      Text : {NilString, StringPtr(""), StringPtr("a&b=c d")},
      Subtext : {NilString, StringPtr(""), StringPtr("50%")},
      Count : {NilInt} \cup Addrs,
      Percent : {NilInt} \cup Addrs ]

Heaps ==
    { [a \in Addrs |-> CASE a = "p1" -> x [] a = "p2" -> y [] OTHER -> 0] :
        x \in {0, 5, -1}, y \in {0, 100} }

GlanceInit ==
    /\ DispatchIdle /\ WrapIdle /\ ShareIdle
    /\ encoder = "none"
    /\ msg = NoMessage
    /\ glance \in Glances
    /\ heap \in Heaps
    /\ data = ""

\* Client.SendGlance builds its request body with makeGlanceData
MakeGlanceData ==
    /\ encoder = "none"
    /\ encoder' = "Client.makeGlanceData"
    /\ data' = makeGlanceData(ApplicationToken, glance, heap)
    /\ UNCHANGED <<dispatchVars, msg, glance, heap, wrapVars, shareVars>>

GlanceNext == MakeGlanceData

GlanceSpec == GlanceInit /\ [][GlanceNext]_vars

-----------------------------------------------------------------------------
(* Encoder state when only the send operations are explored *)

EncodeIdle ==
    /\ encoder = "none"
    /\ msg = NoMessage
    /\ glance = NoGlance
    /\ heap = NoHeap
    /\ data = ""

-----------------------------------------------------------------------------
(* The send operations as a state machine *)

Init == DispatchIdle /\ EncodeIdle /\ WrapIdle /\ ShareIdle

Next ==
    \/ \E o \in Ops \ RetryOps : Call(o, 0)
    \/ \E o \in RetryOps, n \in -1 .. MaxRetriesBound : Call(o, n)
    \/ \E t \in TransportOutcomes : SendWithRetries(t)
    \/ Sleep
    \/ \E t \in TransportOutcomes : ClientSend(t)
    \/ \E t \in TransportOutcomes : ClientSendRequest(t)
    \/ \E t \in TransportOutcomes : MessageClientSend(t)
    \/ Cancel

Spec == Init /\ [][Next]_vars

-----------------------------------------------------------------------------
(* The Error wrapper *)

\* context.DeadlineExceeded: reports Timeout and Temporary
DeadlineExceeded ==
    [kind |-> "context.DeadlineExceeded", StatusCode |-> 0,
     Message |-> "context deadline exceeded"]

\* context.Canceled: a plain error
Canceled == [kind |-> "context.Canceled", StatusCode |-> 0, Message |-> "context canceled"]

\* an error of another package with the methods it has and what they report
ForeignError(text, has, timeout, temporary) ==
    [kind |-> "foreign", StatusCode |-> 0, Message |-> text, methods |-> has,
     timeout |-> timeout, temporary |-> temporary]

\* &Error{Err: e}
WrapError(e) == [kind |-> "Error", StatusCode |-> 0, Message |-> "", Err |-> e]

RECURSIVE ErrorString(_), NetError(_), NetTimeout(_), NetTemporary(_)
RECURSIVE ErrorError(_), ErrorTimeout(_), ErrorTemporary(_)

\* e.Error()
ErrorString(e) ==
    CASE e.kind = "TemporaryError" ->
            "pushover: temporary error: " \o e.Message \o " (" \o Itoa(e.StatusCode) \o ")"
      [] e.kind = "FatalError" ->
            "pushover: fatal error: " \o e.Message \o " (" \o Itoa(e.StatusCode) \o ")"
      [] e.kind = "Error" -> ErrorError(e)
      [] OTHER -> e.Message

\* e.(net.Error): e has the methods Error, Timeout and Temporary
NetError(e) ==
    CASE e.kind \in {"TemporaryError", "FatalError", "Error", "context.DeadlineExceeded"} -> TRUE
      [] e.kind = "foreign" -> {"Timeout", "Temporary"} \subseteq e.methods
      [] OTHER -> FALSE

\* ne.Timeout()
NetTimeout(e) ==
    CASE e.kind \in {"TemporaryError", "FatalError"} -> FALSE
      [] e.kind = "context.DeadlineExceeded" -> TRUE
      [] e.kind = "Error" -> ErrorTimeout(e)
      [] e.kind = "foreign" -> e.timeout

\* ne.Temporary()
NetTemporary(e) ==
    CASE e.kind = "Error" -> ErrorTemporary(e)
      [] e.kind = "context.DeadlineExceeded" -> TRUE
      [] e.kind = "foreign" -> e.temporary
      [] OTHER -> Temporary(e)

\* (*Error).Error
ErrorError(w) == ErrorString(w.Err)

\* (*Error).Unwrap
ErrorUnwrap(w) == w.Err

\* (*Error).Timeout
ErrorTimeout(w) == IF NetError(w.Err) THEN NetTimeout(w.Err) ELSE FALSE

\* faulty variant: Temporary reports what the wrapped error's Timeout reports
ErrorTemporary_ReportsTimeout(w) == IF NetError(w.Err) THEN NetTimeout(w.Err) ELSE FALSE

\* (*Error).Temporary
ErrorTemporary(w) == IF NetError(w.Err) THEN NetTemporary(w.Err) ELSE FALSE

\* errors of this package, of context and of other packages
BaseErrors ==
    {DeadlineExceeded, Canceled,
     TemporaryError(500, "{\"status\":0}"), TemporaryError(-1, "EOF"),
     FatalError(400, "{\"status\":0}")}
    \cup {ForeignError("i/o timeout", has, to, tmp) :
            has \in SUBSET {"Timeout", "Temporary"}, to \in BOOLEAN, tmp \in BOOLEAN}

\* the errors a caller wraps: any of these, or an *Error that wraps one
WrappedErrors == BaseErrors \cup {WrapError(e) : e \in BaseErrors}

ErrorInit ==
    /\ DispatchIdle /\ EncodeIdle /\ ShareIdle
    /\ Err \in WrappedErrors
    /\ returned = NoReturns

\* the caller calls one method of &Error{Err: Err}
CallError ==
    /\ ~returned.Error.called
    /\ returned' = [returned EXCEPT !.Error = [called |-> TRUE, v |-> ErrorError(WrapError(Err))]]
    /\ UNCHANGED <<dispatchVars, encodeVars, Err, shareVars>>

CallUnwrap ==
    /\ ~returned.Unwrap.called
    /\ returned' = [returned EXCEPT !.Unwrap = [called |-> TRUE, v |-> ErrorUnwrap(WrapError(Err))]]
    /\ UNCHANGED <<dispatchVars, encodeVars, Err, shareVars>>

CallTimeout ==
    /\ ~returned.Timeout.called
    /\ returned' = [returned EXCEPT !.Timeout = [called |-> TRUE, v |-> ErrorTimeout(WrapError(Err))]]
    /\ UNCHANGED <<dispatchVars, encodeVars, Err, shareVars>>

CallTemporary ==
    /\ ~returned.Temporary.called
    /\ returned' = [returned EXCEPT !.Temporary = [called |-> TRUE, v |-> ErrorTemporary(WrapError(Err))]]
    /\ UNCHANGED <<dispatchVars, encodeVars, Err, shareVars>>

ErrorNext == CallError \/ CallUnwrap \/ CallTimeout \/ CallTemporary

ErrorSpec == ErrorInit /\ [][ErrorNext]_vars

-----------------------------------------------------------------------------
(* One Client shared by concurrent callers: SetHTTPClient against requests.
   Every lock operation and every access to a field of the Client is a step
   of its own; the steps of different callers interleave freely. *)

\* the *http.Client values callers install
Handles == {"h1", "h2"}

\* the tokens a Client is constructed with
AppTokens == {ApplicationToken, "azGDORePK8gMaC0QOYAMyEEuzJnyUi"}

\* faulty variant: RLock returns even while a writer holds the lock
CanRLock_Always(mu) == TRUE

\* RLock returns only while no writer holds the lock
CanRLock(mu) == mu.w = "none"

\* Lock returns only while nobody holds the lock
CanLock(mu) == mu.w = "none" /\ mu.r = {}

\* caller self moves on with the position and locals of rec
Step(self, rec) == goroutines' = [goroutines EXCEPT ![self] = rec]

\* NewClient(appToken) returned; no caller has started
ShareInit ==
    /\ DispatchIdle /\ EncodeIdle /\ WrapIdle
    /\ appToken \in AppTokens
    /\ rwm = Unlocked
    /\ httpClient = "nil"
    /\ goroutines = [g \in Goroutines |-> Resting]

\* SetHTTPClient(client) is called
SetHTTPClient(self, client) ==
    /\ goroutines[self].at = "idle"
    /\ Step(self, [goroutines[self] EXCEPT !.at = "Lock", !.client = client])
    /\ UNCHANGED <<dispatchVars, encodeVars, wrapVars, appToken, rwm, httpClient>>

\* c.m.Lock()
Lock(self) ==
    /\ goroutines[self].at = "Lock"
    /\ CanLock(rwm)
    /\ rwm' = [rwm EXCEPT !.w = self]
    /\ Step(self, [goroutines[self] EXCEPT !.at = "store"])
    /\ UNCHANGED <<dispatchVars, encodeVars, wrapVars, appToken, httpClient>>

\* c.httpClient = client
Store(self) ==
    /\ goroutines[self].at = "store"
    /\ httpClient' = goroutines[self].client
    /\ Step(self, [goroutines[self] EXCEPT !.at = "Unlock"])
    /\ UNCHANGED <<dispatchVars, encodeVars, wrapVars, appToken, rwm>>

\* the deferred c.m.Unlock(); SetHTTPClient returns
Unlock(self) ==
    /\ goroutines[self].at = "Unlock"
    /\ rwm' = [rwm EXCEPT !.w = "none"]
    /\ Step(self, Resting)
    /\ UNCHANGED <<dispatchVars, encodeVars, wrapVars, appToken, httpClient>>

\* SendMessage / SendGlance: the body is built with c.appToken and
\* sendRequest prepares its request
NewRequest(self) ==
    /\ goroutines[self].at = "idle"
    /\ Step(self, [goroutines[self] EXCEPT !.at = "RLock", !.token = appToken])
    /\ UNCHANGED <<dispatchVars, encodeVars, wrapVars, appToken, rwm, httpClient>>

\* c.http(): c.m.RLock()
RLock(self) ==
    /\ goroutines[self].at = "RLock"
    /\ CanRLock(rwm)
    /\ rwm' = [rwm EXCEPT !.r = @ \cup {self}]
    /\ Step(self, [goroutines[self] EXCEPT !.at = "check", !.seen = httpClient,
                                           !.reads = @ + 1])
    /\ UNCHANGED <<dispatchVars, encodeVars, wrapVars, appToken, httpClient>>

\* c.http(): if c.httpClient != nil
LoadCheck(self) ==
    /\ goroutines[self].at = "check"
    /\ Step(self, [goroutines[self] EXCEPT !.at = "return", !.nonNil = (httpClient # "nil")])
    /\ UNCHANGED <<dispatchVars, encodeVars, wrapVars, appToken, rwm, httpClient>>

\* c.http(): return c.httpClient, or return http.DefaultClient
LoadReturn(self) ==
    /\ goroutines[self].at = "return"
    /\ Step(self, [goroutines[self] EXCEPT
                     !.at = "RUnlock",
                     !.handle = IF goroutines[self].nonNil THEN httpClient
                                ELSE "http.DefaultClient"])
    /\ UNCHANGED <<dispatchVars, encodeVars, wrapVars, appToken, rwm, httpClient>>

\* c.http(): the deferred c.m.RUnlock(); http() returns its handle
RUnlock(self) ==
    /\ goroutines[self].at = "RUnlock"
    /\ rwm' = [rwm EXCEPT !.r = @ \ {self}]
    /\ Step(self, [goroutines[self] EXCEPT !.at = "Do"])
    /\ UNCHANGED <<dispatchVars, encodeVars, wrapVars, appToken, httpClient>>

\* .Do(req) on the handle http() returned: the exchange starts on it, or
\* fails and sendRequest returns the error
Do(self, ok) ==
    /\ goroutines[self].at = "Do"
    /\ Step(self, IF ok THEN [goroutines[self] EXCEPT !.at = "ReadAll",
                                                      !.doer = goroutines[self].handle]
                  ELSE Resting)
    /\ UNCHANGED <<dispatchVars, encodeVars, wrapVars, appToken, rwm, httpClient>>

\* ioutil.ReadAll(resp.Body) on that exchange; sendRequest returns
ReadAll(self) ==
    /\ goroutines[self].at = "ReadAll"
    /\ Step(self, Resting)
    /\ UNCHANGED <<dispatchVars, encodeVars, wrapVars, appToken, rwm, httpClient>>

ShareNext ==
    \/ \E self \in Goroutines, client \in Handles \cup {"nil"} : SetHTTPClient(self, client)
    \/ \E self \in Goroutines : Lock(self)
    \/ \E self \in Goroutines : Store(self)
    \/ \E self \in Goroutines : Unlock(self)
    \/ \E self \in Goroutines : NewRequest(self)
    \/ \E self \in Goroutines : RLock(self)
    \/ \E self \in Goroutines : LoadCheck(self)
    \/ \E self \in Goroutines : LoadReturn(self)
    \/ \E self \in Goroutines : RUnlock(self)
    \/ \E self \in Goroutines, ok \in BOOLEAN : Do(self, ok)
    \/ \E self \in Goroutines : ReadAll(self)

ShareSpec == ShareInit /\ [][ShareNext]_vars

-----------------------------------------------------------------------------
(* Properties of the retrying dispatch *)

LegacyOps == OnceOps \cup RetryOps

\* trace is send, sleep, send, ..., send: every sleep lies between two sends
Alternates(tr) ==
    /\ Len(tr) % 2 = 1
    /\ \A k \in 1 .. Len(tr) : tr[k] = IF k % 2 = 1 THEN "send" ELSE "sleep"

\* C1: with maxRetries = N > 0 and every attempt Temporary, SendWithRetries
\* makes exactly N sends and N-1 sleeps, each sleep between two sends, and
\* returns the TemporaryError of the N-th send; before that it has made
\* fewer than N sends.
C1_ExactlyNAttempts ==
    (op \in RetryOps /\ maxRetries > 0 /\ nTemp = nSend) =>
        /\ pc # "done" => nSend < maxRetries
        /\ pc = "done" =>
            /\ nSend = maxRetries
            /\ nSleep = maxRetries - 1
            /\ Len(trace) = 2 * maxRetries - 1
            /\ Alternates(trace)
            /\ Temporary(result)
            /\ result = lastErr

C1_Witness ==
    /\ pc = "done" /\ op = "SendWithRetries" /\ maxRetries = 3
    /\ nSend = 3 /\ nTemp = 3 /\ nSleep = 2
    /\ Temporary(result)

\* C2: once a send of the retrying dispatch yields Success or a FatalError,
\* the dispatch has returned exactly that value: the send is the last event,
\* and every earlier send was Temporary and followed by one sleep, whatever
\* maxRetries is.
C2_ReturnsAtOnce ==
    (op \in RetryOps /\ nSend > 0 /\ lastErr.kind \in {"nil", "FatalError"}) =>
        /\ pc = "done"
        /\ result = lastErr
        /\ trace[Len(trace)] = "send"
        /\ Alternates(trace)
        /\ nSleep = nSend - 1
        /\ nTemp = nSend - 1
        /\ i = nSend - 1

C2_Witness ==
    /\ pc = "done" /\ op = "SendWithRetries" /\ maxRetries = -1
    /\ nSend = 3 /\ result.kind = "FatalError" /\ result = lastErr
    /\ lastT.step = "ok" /\ lastT.code = 200

\* C3: with maxRetries <= 0 SendWithRetries never returns a TemporaryError:
\* while every send so far was Temporary it is still attempting or sleeping,
\* and when it returns Success after k Temporary sends it has made exactly
\* k+1 sends and k sleeps.
C3_UnlimitedNeverGivesUp ==
    (op \in RetryOps /\ maxRetries <= 0) =>
        /\ pc = "done" => ~Temporary(result)
        /\ nTemp = nSend => pc \in {"attempting", "sleeping"}
        /\ pc \in {"attempting", "sleeping"} =>
              /\ nTemp = nSend
              /\ i = nSend
              /\ nSleep = IF pc = "sleeping" THEN nSend - 1 ELSE nSend
        /\ (pc = "done" /\ result = NoError) =>
              /\ nSend = nTemp + 1
              /\ nSleep = nTemp
              /\ Alternates(trace)

C3_Witness ==
    /\ pc = "done" /\ op = "SendWithRetries" /\ maxRetries = 0
    /\ nTemp = 2 /\ nSend = 3 /\ result = NoError

-----------------------------------------------------------------------------
(* Properties of the response classifier *)

\* the body is a JSON object whose "status" member is the number tenths/10
HasNumericStatus(b, tenths) ==
    LET v == JSONValue(b) IN
    /\ v.kind = "object"
    /\ "status" \in DOMAIN v.fields
    /\ v.fields["status"] = Num(tenths)

\* C5: a single send returns Success (nil) if and only if the exchange
\* produced a response whose status code is exactly 200 and whose body is a
\* JSON object with a numeric status member equal to 1.
C5_SuccessIff ==
    nSend > 0 =>
        (lastErr = NoError <=>
            /\ lastT.step = "ok"
            /\ lastT.code = 200
            /\ HasNumericStatus(lastT.body, 10))

C5_Witness ==
    /\ nSend > 0 /\ op = "ctx.SendMessage" /\ lastT.step = "ok"
    /\ lastT.code = 200 /\ lastT.body = "{\"status\":\"1\"}"
    /\ lastErr # NoError

\* C6: for a response that is not Success the legacy classifier returns a
\* FatalError if and only if the status code is 4xx or the body is a JSON
\* object with a numeric status member equal to 0, and a TemporaryError in
\* every other case; both carry the response's status code and body.
C6_FatalIff ==
    (nSend > 0 /\ op \in LegacyOps /\ lastT.step = "ok" /\ lastErr # NoError) =>
        LET fatal == \/ lastT.code \in 400 .. 499
                     \/ HasNumericStatus(lastT.body, 0)
        IN  /\ fatal => lastErr = FatalError(lastT.code, lastT.body)
            /\ ~fatal => lastErr = TemporaryError(lastT.code, lastT.body)

C6_Witness ==
    /\ nSend > 0 /\ op = "Send" /\ lastT.step = "ok"
    /\ lastT.code = 500 /\ lastT.body = "{\"status\":1}"
    /\ Temporary(lastErr)

-----------------------------------------------------------------------------
(* Properties of the returned error values *)

Classified == {"nil", "FatalError", "TemporaryError"}

C8_TransportFailures ==
    (op \in RetryOps /\ nSend > 0) =>
        /\ (lastT.step \in {"do_err", "read_err"} /\ pc \in {"sleeping", "done"}) =>
              /\ Temporary(lastErr)
              /\ i = nSend
              /\ pc = "done" <=> (maxRetries > 0 /\ nSend = maxRetries)
              /\ pc = "done" => result = lastErr
        /\ lastT.step = "newrequest_err" =>
              /\ lastErr.kind = "FatalError"
              /\ pc = "done"
              /\ result = lastErr
              /\ i = nSend - 1
              /\ nSleep = nSend - 1
              /\ trace[Len(trace)] = "send"

C8_Witness ==
    /\ op = "SendWithRetries" /\ maxRetries = 3 /\ pc = "done"
    /\ nSend = 2 /\ i = 1 /\ lastT.step = "newrequest_err"
    /\ result.kind = "FatalError"

-----------------------------------------------------------------------------
(* Reading a request body back: url.ParseQuery, used to state what a body
   contains *)

\* the character a %XX escape stands for
HexChar(h) ==
    CASE h = "25" -> "%"
      [] h = "26" -> "&"
      [] h = "2B" -> "+"
      [] h = "2C" -> ","
      [] h = "2F" -> "/"
      [] h = "3A" -> ":"
      [] h = "3D" -> "="
      [] h = "3F" -> "?"

\* url.QueryUnescape
RECURSIVE UnescapeFrom(_, _)
UnescapeFrom(str, k) ==
    IF k > Len(str) THEN ""
    ELSE LET c == SubSeq(str, k, k) IN
         IF c = "%" THEN HexChar(SubSeq(str, k + 1, k + 2)) \o UnescapeFrom(str, k + 3)
         ELSE (IF c = "+" THEN " " ELSE c) \o UnescapeFrom(str, k + 1)

QueryUnescape(str) == UnescapeFrom(str, 1)

\* the pieces of str between the occurrences of the character sep
Split(str, sep) ==
    LET at == {k \in 1 .. Len(str) : SubSeq(str, k, k) = sep}
        \* the position of the n-th sep; 0 and Len(str) + 1 bound the string
        Nth(n) == IF n = 0 THEN 0
                  ELSE IF n > Cardinality(at) THEN Len(str) + 1
                  ELSE CHOOSE p \in at : Cardinality({x \in at : x < p}) = n - 1
    IN  [n \in 1 .. Cardinality(at) + 1 |-> SubSeq(str, Nth(n - 1) + 1, Nth(n) - 1)]

\* the (key, value) pairs of a body, in the order they are written
Pairs(body) ==
    LET pieces == IF body = "" THEN <<>> ELSE Split(body, "&")
        Pair(p) == LET kv == Split(p, "=") IN
                   <<QueryUnescape(kv[1]),
                     QueryUnescape(Join(Tail(kv), "="))>>
    IN  [k \in 1 .. Len(pieces) |-> Pair(pieces[k])]

\* the body as a map from each key to its first value
ParseQuery(body) ==
    LET ps == Pairs(body)
        First(x) == CHOOSE k \in 1 .. Len(ps) :
                        /\ ps[k][1] = x
                        /\ \A j \in 1 .. k - 1 : ps[j][1] # x
    IN  [x \in {ps[k][1] : k \in 1 .. Len(ps)} |-> ps[First(x)][2]]

\* body holds key k
Has(q, k) == k \in DOMAIN q

\* body holds key k with value v
HasValue(q, k, v) == k \in DOMAIN q /\ q[k] = v

-----------------------------------------------------------------------------
(* Properties of the Message encoders *)

\* C9: the encoded Message holds the keys retry and expire if and only if
\* Priority is EmergencyPriority, whatever Retry and Expire are (0 included),
\* and they then carry Retry and Expire in decimal; it holds callback if and
\* only if Priority is EmergencyPriority and Callback is not empty, and then
\* with Callback as its value.
C9_EmergencyOnly ==
    encoder \in {"Client.makeData", "Client.makeMessageData", "MessageClient.makeData"} =>
        LET q == ParseQuery(data)
            emergency == msg.Priority = 2
        IN  /\ Has(q, "retry") <=> emergency
            /\ Has(q, "expire") <=> emergency
            /\ Has(q, "callback") <=> (emergency /\ msg.Callback # "")
            /\ emergency =>
                 /\ q["retry"] = (IF msg.Retry = 0 THEN "0" ELSE "30")
                 /\ q["expire"] = (IF msg.Expire = 0 THEN "0" ELSE "3600")
                 /\ msg.Callback # "" => q["callback"] = msg.Callback

C9_Witness ==
    /\ encoder = "Client.makeMessageData"
    /\ msg.Priority = 2 /\ msg.Retry = 0 /\ msg.Expire = 0 /\ msg.Callback = ""
    /\ msg.Title # ""
    /\ HasValue(ParseQuery(data), "retry", "0")
    /\ HasValue(ParseQuery(data), "expire", "0")
    /\ ~Has(ParseQuery(data), "callback")

-----------------------------------------------------------------------------
(* Properties of the Glance encoder *)

\* an int in base 10, for the ints the Glances point at
Decimal(n) ==
    CASE n = 0 -> "0"
      [] n = 5 -> "5"
      [] n = -1 -> "-1"
      [] n = 100 -> "100"

\* a *string field: unset (nil) leaves the key out, removal (the empty
\* string) gives the key an empty value, a value gives the key that value
StringFieldKept(q, k, p) ==
    /\ p.nil => ~Has(q, k)
    /\ (~p.nil /\ p.v = "") => HasValue(q, k, "")
    /\ (~p.nil /\ p.v # "") => HasValue(q, k, p.v) /\ q[k] # ""

\* a *int field: unset (nil) leaves the key out, removal (the field's own
\* sentinel) gives the key an empty value, any other pointer gives the key
\* the decimal of the int it points at
IntFieldKept(q, k, p, sentinel, h) ==
    /\ p = NilInt => ~Has(q, k)
    /\ p = sentinel => HasValue(q, k, "")
    /\ p \notin {NilInt, sentinel} => HasValue(q, k, Decimal(h[p])) /\ q[k] # ""

\* C10: in the encoded Glance each of title, text, subtext, count and percent
\* keeps its own state, whatever the other fields are: unset -> the key is
\* absent; set -> the key is present with the value as a string (count and
\* percent in base 10); removal -> the key is present with an empty value.
C10_GlanceTriState ==
    encoder = "Client.makeGlanceData" =>
        LET q == ParseQuery(data) IN
        /\ StringFieldKept(q, "title", glance.Title)
        /\ StringFieldKept(q, "text", glance.Text)
        /\ StringFieldKept(q, "subtext", glance.Subtext)
        /\ IntFieldKept(q, "count", glance.Count, RemoveCount, heap)
        /\ IntFieldKept(q, "percent", glance.Percent, RemovePercent, heap)

C10_Witness ==
    /\ encoder = "Client.makeGlanceData"
    /\ glance.Title.nil
    /\ glance.Text = StringPtr("")
    /\ glance.Subtext = StringPtr("50%")
    /\ glance.Count = "p1" /\ heap["p1"] = 5
    /\ glance.Percent = RemovePercent
    /\ LET q == ParseQuery(data) IN
       /\ ~Has(q, "title")
       /\ HasValue(q, "text", "")
       /\ HasValue(q, "subtext", "50%")
       /\ HasValue(q, "count", "5")
       /\ HasValue(q, "percent", "")

-----------------------------------------------------------------------------
(* Properties of the Message encoders: required and optional parameters *)

MessageEncoders == {"Client.makeData", "Client.makeMessageData", "MessageClient.makeData"}

\* the device names joined by commas, for the device lists the Messages hold
CommaJoined(devs) ==
    CASE Len(devs) = 0 -> ""
      [] Len(devs) = 1 -> devs[1]
      [] Len(devs) = 3 -> devs[1] \o "," \o devs[2] \o "," \o devs[3]

\* a priority in base 10
PriorityDecimal(n) ==
    CASE n = -2 -> "-2"
      [] n = -1 -> "-1"
      [] n = 0 -> "0"
      [] n = 1 -> "1"
      [] n = 2 -> "2"
      [] n = 3 -> "3"

\* a Timestamp's Unix seconds in base 10
UnixDecimal(ts) == IF ts.unix = 0 THEN "0" ELSE "1700000000"

\* key k is in the body exactly when present holds, and then with value v
KeyIff(q, k, present, v) == (Has(q, k) <=> present) /\ (present => q[k] = v)

\* C11: the encoded Message always holds token, user and message, and holds
\* each of device, title, url, url_title, priority, sound, timestamp, html and
\* monospace if and only if its field is set (a non-empty list or string, a
\* non-zero priority, a non-zero time, a true flag), with the field's value
\* (the devices joined by commas, numbers in base 10, a true flag as "1"); a
\* Message of NormalPriority yields none of priority, retry, expire, callback;
\* every key is written once and no other key is written.
C11_RequiredAndOptional ==
    encoder \in MessageEncoders =>
        LET q == ParseQuery(data) IN
        /\ HasValue(q, "token", ApplicationToken)
        /\ HasValue(q, "user", msg.User)
        /\ HasValue(q, "message", msg.Message)
        /\ KeyIff(q, "device", Len(msg.Devices) # 0, CommaJoined(msg.Devices))
        /\ KeyIff(q, "title", msg.Title # "", msg.Title)
        /\ KeyIff(q, "url", msg.URL # "", msg.URL)
        /\ KeyIff(q, "url_title", msg.URLTitle # "", msg.URLTitle)
        /\ KeyIff(q, "priority", msg.Priority # 0, PriorityDecimal(msg.Priority))
        /\ KeyIff(q, "sound", msg.Sound # "", msg.Sound)
        /\ KeyIff(q, "timestamp", ~msg.Timestamp.zero, UnixDecimal(msg.Timestamp))
        /\ KeyIff(q, "html", msg.HTML, "1")
        /\ KeyIff(q, "monospace", msg.Monospace, "1")
        /\ msg.Priority = 0 =>
              DOMAIN q \cap {"priority", "retry", "expire", "callback"} = {}
        /\ DOMAIN q \subseteq {"token", "user", "message", "device", "title", "url",
                               "url_title", "priority", "sound", "timestamp", "html",
                               "monospace", "retry", "expire", "callback"}
        /\ Len(Pairs(data)) = Cardinality(DOMAIN q)

C11_Witness ==
    /\ encoder = "Client.makeData"
    /\ msg.Priority = 0 /\ msg.Retry = 30 /\ msg.Expire = 3600 /\ msg.Callback # ""
    /\ Len(msg.Devices) = 3 /\ msg.HTML /\ ~msg.Monospace
    /\ msg.Timestamp = Time(0) /\ msg.Title = "" /\ msg.Sound = "siren"
    /\ LET q == ParseQuery(data) IN
       /\ HasValue(q, "device", "iphone,nexus5,droid-2")
       /\ HasValue(q, "html", "1")
       /\ HasValue(q, "timestamp", "0")
       /\ HasValue(q, "sound", "siren")
       /\ DOMAIN q \cap {"priority", "retry", "expire", "callback", "monospace", "title"} = {}

-----------------------------------------------------------------------------
(* Properties of the bounded retry loop under every outcome sequence *)

\* C14: with maxRetries = N > 0, whatever the sends yield, SendWithRetries
\* makes at most N sends and has returned once the N-th is made; its counter
\* counts exactly the Temporary outcomes and never exceeds N; a call that
\* returned a TemporaryError made exactly N sends, all N of them Temporary,
\* and a call that returned anything else made one send more than it counted.
C14_BoundedRetries ==
    (op \in RetryOps /\ maxRetries > 0) =>
        /\ nSend <= maxRetries
        /\ i = nTemp
        /\ i <= maxRetries
        /\ nSend = maxRetries => pc = "done"
        /\ pc \in {"attempting", "sleeping"} => i = nSend /\ i < maxRetries
        /\ (pc = "done" /\ Temporary(result)) =>
              /\ nSend = maxRetries
              /\ nTemp = maxRetries
              /\ i = maxRetries
        /\ (pc = "done" /\ ~Temporary(result)) => nSend = i + 1

C14_Witness ==
    /\ pc = "done" /\ op = "DefaultClient.SendWithRetries" /\ maxRetries = 2
    /\ i = 2 /\ nSend = 2 /\ nTemp = 2
    /\ result.kind = "TemporaryError" /\ lastT.step = "do_err"

-----------------------------------------------------------------------------
(* Properties of the Glance encoder: removal is the sentinel cell itself *)

\* key k is written empty exactly for the field's own sentinel cell; every
\* other non-nil pointer, the other field's sentinel and a caller's cell
\* holding 0 included, is written as the decimal of the int it points at
RemovalByIdentity(q, k, p, sentinel, h) ==
    /\ HasValue(q, k, "") <=> p = sentinel
    /\ (p # NilInt /\ p # sentinel) => HasValue(q, k, Decimal(h[p]))
    /\ (p \in Addrs \ {sentinel} /\ h[p] = h[sentinel]) => HasValue(q, k, "0")

\* C15: the Glance encoder recognises removal by the identity of the pointer,
\* not by the value behind it: count is written empty if and only if Count is
\* the RemoveCount cell itself; any other non-nil Count (a caller's cell
\* holding 0, or the RemovePercent cell) is written as the decimal of the int
\* it points at, "0" for those; and the same for percent with RemovePercent.
C15_RemovalByIdentity ==
    encoder = "Client.makeGlanceData" =>
        LET q == ParseQuery(data) IN
        /\ RemovalByIdentity(q, "count", glance.Count, RemoveCount, heap)
        /\ RemovalByIdentity(q, "percent", glance.Percent, RemovePercent, heap)

C15_Witness ==
    /\ encoder = "Client.makeGlanceData"
    /\ glance.Count = RemovePercent
    /\ glance.Percent = "p1" /\ heap["p1"] = 0 /\ heap[RemovePercent] = 0
    /\ LET q == ParseQuery(data) IN
       /\ HasValue(q, "count", "0")
       /\ HasValue(q, "percent", "0")

-----------------------------------------------------------------------------
(* Properties of the Error wrapper *)

\* what the wrapped error itself reports; an error that lacks one of the two
\* methods is no net.Error and counts as reporting neither
Reports(e, method) ==
    /\ NetError(e)
    /\ IF e.kind = "foreign"
       THEN (IF method = "Timeout" THEN e.timeout ELSE e.temporary)
       ELSE (IF method = "Timeout" THEN NetTimeout(e) ELSE NetTemporary(e))

\* C13: the Error wrapper is transparent for every wrapped error e: Error()
\* returns e's message, Unwrap() returns e itself, and Timeout() and
\* Temporary() return what e reports when e is a net.Error and false when it
\* is not; with e the deadline-exceeded error both return true.
C13_Transparent ==
    /\ returned.Error.called => returned.Error.v = ErrorString(Err)
    /\ returned.Unwrap.called => returned.Unwrap.v = Err
    /\ returned.Timeout.called => (returned.Timeout.v <=> Reports(Err, "Timeout"))
    /\ returned.Temporary.called => (returned.Temporary.v <=> Reports(Err, "Temporary"))
    /\ (Err = DeadlineExceeded /\ returned.Error.called) =>
           returned.Error.v = "context deadline exceeded"
    /\ (Err = DeadlineExceeded /\ returned.Timeout.called) => returned.Timeout.v
    /\ (Err = DeadlineExceeded /\ returned.Temporary.called) => returned.Temporary.v
    /\ (Err.kind = "foreign" /\ Err.methods # {"Timeout", "Temporary"}) =>
           ~returned.Timeout.v /\ ~returned.Temporary.v

C13_Witness ==
    /\ Err = DeadlineExceeded
    /\ returned.Error = [called |-> TRUE, v |-> "context deadline exceeded"]
    /\ returned.Unwrap = [called |-> TRUE, v |-> DeadlineExceeded]
    /\ returned.Timeout = [called |-> TRUE, v |-> TRUE]
    /\ returned.Temporary = [called |-> TRUE, v |-> TRUE]

-----------------------------------------------------------------------------
(* Properties of the shared Client *)

\* the handle a read of an installed value v yields
Effective(v) == IF v = "nil" THEN "http.DefaultClient" ELSE v

\* C12: on a Client shared by concurrent callers SetHTTPClient and the reads
\* of the handle are serialized: a writer holds the lock alone and the field
\* does not change while a reader holds it, so the handle a read returns is
\* the one installed when the read began (the process default when that is
\* nil), never nil and never a mix of two installs; a request reads the
\* handle once and runs its whole exchange on that handle, whatever is
\* installed meanwhile; and the token every request in flight was built with
\* is still the Client's token: no operation changes it.
C12_SwapSerialized ==
    /\ rwm.w # "none" => rwm.r = {}
    /\ appToken \in AppTokens
    /\ \A g \in Goroutines :
        LET me == goroutines[g] IN
        /\ g \in rwm.r <=> me.at \in {"check", "return", "RUnlock"}
        /\ g = rwm.w <=> me.at \in {"store", "Unlock"}
        /\ g \in rwm.r => httpClient = me.seen
        /\ me.at \in {"RUnlock", "Do", "ReadAll"} =>
              /\ me.handle = Effective(me.seen)
              /\ me.handle \in Handles \cup {"http.DefaultClient"}
        /\ me.at \in {"check", "return", "RUnlock", "Do", "ReadAll"} => me.reads = 1
        /\ me.at = "ReadAll" => me.doer = me.handle
        /\ me.at \in {"RLock", "check", "return", "RUnlock", "Do", "ReadAll"} =>
              me.token = appToken

C12_Witness ==
    /\ httpClient = "h2"
    /\ goroutines["g1"].at = "ReadAll" /\ goroutines["g1"].doer = "h1"
    /\ goroutines["g2"].at = "Do" /\ goroutines["g2"].handle = "http.DefaultClient"
    /\ goroutines["g3"].at = "Lock" /\ goroutines["g3"].client = "nil"

=============================================================================
